---- MODULE Spec2Model ----
(***************************************************************************)
(* Model of run_yahoo.py: the normalisation-and-derivation engine          *)
(* (get_first, build_rows_from_dfs), the per-company fetch                  *)
(* (fetch_yahoo_financials) and the orchestrator (main, write_outputs).     *)
(*                                                                         *)
(* Representation.                                                         *)
(*  - Python None is the empty tuple <<>>.                                  *)
(*  - A Decimal and a float are exact rationals <<num, den>>, den > 0.      *)
(*    _fmt(x, nd) yields <<n, 10^nd>>: the value n / 10^nd.  Binary float   *)
(*    error and the 28-digit Decimal context are not modelled.              *)
(*  - A Python str that the code slices (a fiscalDate) is a tuple of        *)
(*    one-character strings; a line-item label is a TLA+ string.            *)
(*  - A DataFrame is [index, columns, data]; a column label is either a     *)
(*    pandas Timestamp (kind "Timestamp", ymd) or a str (kind "str", text). *)
(*  - A raw cell is [kind, num, den], kind "num", "NaN" or "text".          *)
(***************************************************************************)
EXTENDS Integers, Sequences, FiniteSets, TLC

VARIABLES
  inc_df, bal_df, cf_df,   \* the three statement tables handed to build_rows_from_dfs
  freq_label,              \* its freq_label argument
  out,                     \* its result: [raised, rows]
  df, name_list, series,   \* get_first: its arguments and its result
  symbol_map,              \* main: the company -> symbol items, in map order
  pc, idx,                 \* main: position and index of the next company
  all_records,             \* main: the aggregate list
  visits,                  \* main: per visited company, what its iteration did
  written                  \* write_outputs: the argument of each call, in call order

vars == <<inc_df, bal_df, cf_df, freq_label, out, df, name_list, series,
          symbol_map, pc, idx, all_records, visits, written>>

None == <<>>

(***************************************************************************)
(* Bounds of the model.                                                    *)
(***************************************************************************)
\* largest of the small integer amounts drawn for a cell (the least is -1)
MaxAmount == 2
\* number of companies of SYMBOL_MAP the orchestrator model walks through
MaxCompanies == 3
\* largest number of period columns of a table drawn with arbitrary columns
MaxCols == 2

(***************************************************************************)
(* Arithmetic: Decimal / float as exact rationals.                         *)
(***************************************************************************)
RECURSIVE Pow10(_)
Pow10(n) == IF n = 0 THEN 1 ELSE 10 * Pow10(n - 1)

Abs(n) == IF n < 0 THEN -n ELSE n

RECURSIVE Gcd(_, _)
Gcd(a, b) == IF b = 0 THEN a ELSE Gcd(b, a % b)

\* the same rational in lowest terms (keeps the integers of the model small)
Reduced(x) ==
  LET g == Gcd(Abs(x[1]), x[2]) IN <<x[1] \div g, x[2] \div g>>

\* a / b for rationals, b # 0, cancelling before multiplying
Quotient(a, b) ==
  LET x == Reduced(a)
      y == Reduced(b)
      gn == Gcd(Abs(x[1]), Abs(y[1]))
      gd == Gcd(x[2], y[2])
      n == (x[1] \div gn) * (y[2] \div gd)
      d == (x[2] \div gd) * (Abs(y[1]) \div gn)
  IN  IF y[1] > 0 THEN <<n, d>> ELSE <<-n, d>>

\* a + b and a - b over the least common denominator
Plus(a, b) ==
  LET x == Reduced(a)
      y == Reduced(b)
      g == Gcd(x[2], y[2])
  IN  Reduced(<<x[1] * (y[2] \div g) + y[1] * (x[2] \div g), (x[2] \div g) * y[2]>>)

Negated(a) == <<-a[1], a[2]>>

\* round(x, nd) on a Decimal (and on a float, up to binary error): round half
\* to even at nd fractional digits.  The result is <<q, 10^nd>>.
round(x, nd) ==
  LET y == Reduced(x)
      n == y[1] * Pow10(nd)
      q == n \div y[2]
      r == n % y[2]
      up == \/ 2 * r > y[2]
            \/ (2 * r = y[2] /\ q % 2 = 1)
  IN  <<IF up THEN q + 1 ELSE q, Pow10(nd)>>

\* a raw cell of a table
NaN == [kind |-> "NaN", num |-> 0, den |-> 1]
Text == [kind |-> "text", num |-> 0, den |-> 1]
Number(n, d) == [kind |-> "num", num |-> n, den |-> d]

\* pd.isna(v); a label missing from the series is looked up as None, also "na"
isna(v) == v = None \/ v.kind = "NaN"

\* Decimal(str(x)); a text cell ("", "None", or text that is no number) gives None
_to_dec_safe(x) ==
  IF x = None \/ x.kind # "num" THEN None ELSE <<x.num, x.den>>

_fmt(x, nd) == IF x = None THEN None ELSE round(x, nd)

_pct(x) == IF x = None THEN None ELSE Reduced(<<Reduced(x)[1] * 100, Reduced(x)[2]>>)

\* mutant: a zero denominator yields zero
_div_zero_default(a, b) ==
  IF a = None \/ b = None THEN None
  ELSE IF b[1] = 0 THEN <<0, 1>>
  ELSE Quotient(a, b)

_div(a, b) ==
  IF a = None \/ b = None THEN None
  ELSE IF b[1] = 0 THEN None
  ELSE Quotient(a, b)

\* Decimal / float arithmetic used by the builder and the growth calculator
Add(a, b) == Plus(a, b)
Sub(a, b) == Plus(a, Negated(b))
Lt(a, b) == Reduced(a)[1] * Reduced(b)[2] < Reduced(b)[1] * Reduced(a)[2]
Decimal(n) == <<n, 1>>

(***************************************************************************)
(* Field aliases.                                                          *)
(***************************************************************************)
INC_FIELDS ==
  [revenue |-> <<"Total Revenue", "TotalRevenue", "Revenue">>,
   grossProfit |-> <<"Gross Profit", "GrossProfit">>,
   netIncome |-> <<"Net Income", "NetIncome">>,
   rd |-> <<"Research Development", "Research And Development", "R&D",
            "ResearchDevelopment">>]

BAL_FIELDS ==
  [cash |-> <<"Cash And Cash Equivalents", "CashAndCashEquivalents", "Cash">>,
   shortDebt |-> <<"Short/Current Long Term Debt", "Short Term Debt",
                   "Short Long Term Debt", "CurrentDebtAndCapitalLeaseObligation",
                   "Current Debt And Capital Lease Obligation">>,
   longDebt |-> <<"Long Term Debt", "LongTermDebt",
                  "LongTermDebtAndCapitalLeaseObligation",
                  "Long Term Debt And Capital Lease Obligation">>,
   totalLiab |-> <<"Total Liab", "Total Liabilities",
                   "TotalLiabilitiesNetMinorityInterest",
                   "Total Liabilities Net Minority Interest">>,
   equity |-> <<"StockholdersEquity", "Total Stockholder Equity",
                "Total Stockholders Equity", "Total Shareholder Equity",
                "Total Equity Gross Minority Interest", "Total Equity">>,
   currAssets |-> <<"Total Current Assets", "CurrentAssets", "Current Assets">>,
   currLiab |-> <<"CurrentLiabilities", "Total Current Liabilities",
                  "Current Liabilities">>]

CF_FIELDS ==
  [opCF |-> <<"Operating Cash Flow", "OperatingCashFlow",
              "Total Cash From Operating Activities",
              "Net Cash Provided By Operating Activities">>,
   capex |-> <<"CapitalExpenditure", "Capital Expenditures", "Capital Expenditure">>]

(***************************************************************************)
(* get_first: the first alias that is a label of the table.                *)
(* The series df.loc[n] is <<[name, data]>>, data indexed by df.columns.   *)
(***************************************************************************)
loc(d, n) == [name |-> n, data |-> [c \in d.columns |-> d.data[<<n, c>>]]]

RECURSIVE get_first_from(_, _, _)
get_first_from(d, names, i) ==
  IF i > Len(names) THEN None
  ELSE IF names[i] \in d.index THEN <<loc(d, names[i])>>
  ELSE get_first_from(d, names, i + 1)

\* mutant: the last alias that labels the table
RECURSIVE get_last_from(_, _, _)
get_last_from(d, names, i) ==
  IF i < 1 THEN None
  ELSE IF names[i] \in d.index THEN <<loc(d, names[i])>>
  ELSE get_last_from(d, names, i - 1)

get_last(d, names) == get_last_from(d, names, Len(names))

get_first(d, names) == get_first_from(d, names, 1)

(***************************************************************************)
(* Period labels and Python strings.                                       *)
(***************************************************************************)
Timestamp(y, m, d) == [kind |-> "Timestamp", ymd |-> <<y, m, d>>, text |-> <<>>]
Str(s) == [kind |-> "str", ymd |-> <<>>, text |-> s]

\* ord(c) for the characters that occur in period strings
ord(c) ==
  CASE c = "-" -> 45 [] c = "0" -> 48 [] c = "1" -> 49 [] c = "2" -> 50
    [] c = "3" -> 51 [] c = "4" -> 52 [] c = "5" -> 53 [] c = "6" -> 54
    [] c = "7" -> 55 [] c = "8" -> 56 [] c = "9" -> 57 [] c = "M" -> 77
    [] c = "Q" -> 81 [] c = "T" -> 84

DigitChars == <<"0", "1", "2", "3", "4", "5", "6", "7", "8", "9">>
IsDigit(c) == \E i \in 1..10 : DigitChars[i] = c
DigitValue(c) == (CHOOSE i \in 1..10 : DigitChars[i] = c) - 1

\* s < t for two Python strings: lexicographic by code point
RECURSIVE StrLess(_, _)
StrLess(s, t) ==
  IF t = <<>> THEN FALSE
  ELSE IF s = <<>> THEN TRUE
  ELSE IF ord(Head(s)) # ord(Head(t)) THEN ord(Head(s)) < ord(Head(t))
  ELSE StrLess(Tail(s), Tail(t))

\* a < b for two Timestamps
TsLess(a, b) ==
  \/ a[1] < b[1]
  \/ a[1] = b[1] /\ a[2] < b[2]
  \/ a[1] = b[1] /\ a[2] = b[2] /\ a[3] < b[3]

ColLess(a, b) ==
  IF a.kind = "Timestamp" THEN TsLess(a.ymd, b.ymd) ELSE StrLess(a.text, b.text)

\* str(n) for an int
RECURSIVE NatStr(_)
NatStr(n) ==
  IF n < 10 THEN <<DigitChars[n + 1]>>
  ELSE NatStr(n \div 10) \o <<DigitChars[(n % 10) + 1]>>

IntStr(n) == IF n < 0 THEN <<"-">> \o NatStr(-n) ELSE NatStr(n)

\* "%0wd" % n, n >= 0
RECURSIVE Padded(_, _)
Padded(n, w) ==
  IF w = 0 THEN <<>> ELSE Padded(n \div 10, w - 1) \o <<DigitChars[(n % 10) + 1]>>

\* str(d.date()): the ISO form of a Timestamp's date
IsoDate(ymd) ==
  Padded(ymd[1], 4) \o <<"-">> \o Padded(ymd[2], 2) \o <<"-">> \o Padded(ymd[3], 2)

\* s[:n] and s[n:]
Prefix(s, n) == SubSeq(s, 1, IF n < Len(s) THEN n ELSE Len(s))
Suffix(s, n) == SubSeq(s, n + 1, Len(s))

\* int(s): defined for a non-empty string of digits (a sign, blanks and
\* underscores, which int() also takes, do not occur in the period strings)
IntParses(s) == s # <<>> /\ \A i \in 1..Len(s) : IsDigit(s[i])

RECURSIVE IntOf(_)
IntOf(s) ==
  IF s = <<>> THEN 0
  ELSE 10 * IntOf(SubSeq(s, 1, Len(s) - 1)) + DigitValue(s[Len(s)])

(***************************************************************************)
(* build_rows_from_dfs, lines 77-101: resolve the series, gather the dates.*)
(***************************************************************************)
Resolved(inc, bal, cf) ==
  [rev_s |-> get_first(inc, INC_FIELDS.revenue),
   gp_s |-> get_first(inc, INC_FIELDS.grossProfit),
   ni_s |-> get_first(inc, INC_FIELDS.netIncome),
   rd_s |-> get_first(inc, INC_FIELDS.rd),
   cash_s |-> get_first(bal, BAL_FIELDS.cash),
   sdebt_s |-> get_first(bal, BAL_FIELDS.shortDebt),
   ldebt_s |-> get_first(bal, BAL_FIELDS.longDebt),
   tliab_s |-> get_first(bal, BAL_FIELDS.totalLiab),
   equity_s |-> get_first(bal, BAL_FIELDS.equity),
   ca_s |-> get_first(bal, BAL_FIELDS.currAssets),
   cl_s |-> get_first(bal, BAL_FIELDS.currLiab),
   ocf_s |-> get_first(cf, CF_FIELDS.opCF),
   capex_s |-> get_first(cf, CF_FIELDS.capex)]

\* list(X) for a set or an index: its elements in some order
RECURSIVE list(_)
list(X) ==
  IF X = {} THEN <<>>
  ELSE LET x == CHOOSE x \in X : TRUE IN <<x>> \o list(X \ {x})

cols(s) == IF s # None THEN list(DOMAIN s[1].data) ELSE <<>>

\* mutant: the two cash-flow series left out
chain_without_cashflow(S) ==
  cols(S.rev_s) \o cols(S.gp_s) \o cols(S.ni_s) \o cols(S.rd_s)
  \o cols(S.cash_s) \o cols(S.sdebt_s) \o cols(S.ldebt_s) \o cols(S.tliab_s)
  \o cols(S.equity_s) \o cols(S.ca_s) \o cols(S.cl_s)

\* itertools.chain over the thirteen series, in the order of lines 97-100
chain(S) ==
  cols(S.rev_s) \o cols(S.gp_s) \o cols(S.ni_s) \o cols(S.rd_s)
  \o cols(S.cash_s) \o cols(S.sdebt_s) \o cols(S.ldebt_s) \o cols(S.tliab_s)
  \o cols(S.equity_s) \o cols(S.ca_s) \o cols(S.cl_s)
  \o cols(S.ocf_s) \o cols(S.capex_s)

\* set(l) for a list, and list(set) in some order
set(l) == list({l[i] : i \in DOMAIN l})

\* l without its element at position i
Without(l, i) == SubSeq(l, 1, i - 1) \o SubSeq(l, i + 1, Len(l))

\* mutant: ascending, reverse=True forgotten
RECURSIVE sorted_ascending(_)
sorted_ascending(l) ==
  IF l = <<>> THEN <<>>
  ELSE LET i == CHOOSE i \in DOMAIN l : \A j \in DOMAIN l : ~ColLess(l[j], l[i])
       IN  <<l[i]>> \o sorted_ascending(Without(l, i))

\* sorted(l, reverse=True) for a list whose elements compare
RECURSIVE sorted_reverse(_)
sorted_reverse(l) ==
  IF l = <<>> THEN <<>>
  ELSE LET i == CHOOSE i \in DOMAIN l : \A j \in DOMAIN l : ~ColLess(l[i], l[j])
       IN  <<l[i]>> \o sorted_reverse(Without(l, i))

\* sorted() compares a Timestamp with a str as soon as both occur: TypeError
Dates(S) ==
  LET all == set(chain(S))
  IN  IF \E i, j \in DOMAIN all : all[i].kind # all[j].kind
      THEN [raised |-> TRUE, list |-> <<>>]
      ELSE [raised |-> FALSE, list |-> sorted_reverse(all)]

(***************************************************************************)
(* build_rows_from_dfs, lines 104-174: one row per date.                   *)
(***************************************************************************)
val(s, d) ==
  IF s = None THEN None
  ELSE LET v == IF d \in DOMAIN s[1].data THEN s[1].data[d] ELSE None
       IN  IF isna(v) THEN None ELSE _to_dec_safe(v)

fiscalDateOf(d) == IF d.kind = "Timestamp" THEN IsoDate(d.ymd) ELSE d.text

\* mutant: the current-ratio threshold not strict
Flags_not_strict(m) ==
  (IF m.currentRatio # None /\ ~Lt(Decimal(1), m.currentRatio)
     THEN <<"current_ratio_lt_1">> ELSE <<>>)
  \o (IF m.freeCashFlow # None /\ Lt(m.freeCashFlow, Decimal(0))
        THEN <<"negative_fcf">> ELSE <<>>)
  \o (IF m.debtToEquity # None /\ Lt(Decimal(2), m.debtToEquity)
        THEN <<"high_debt_to_equity">> ELSE <<>>)

Flags(m) ==
  (IF m.currentRatio # None /\ Lt(m.currentRatio, Decimal(1))
     THEN <<"current_ratio_lt_1">> ELSE <<>>)
  \o (IF m.freeCashFlow # None /\ Lt(m.freeCashFlow, Decimal(0))
        THEN <<"negative_fcf">> ELSE <<>>)
  \o (IF m.debtToEquity # None /\ Lt(Decimal(2), m.debtToEquity)
        THEN <<"high_debt_to_equity">> ELSE <<>>)

\* line 127
FreeCashFlow(opCF, capex) ==
  IF opCF # None /\ capex # None THEN Sub(opCF, capex) ELSE None

\* mutant: null as soon as one component is null
TotalDebt_needs_both(shortDebt, longDebt) ==
  IF shortDebt # None /\ longDebt # None THEN Add(shortDebt, longDebt) ELSE None

\* lines 129-131; "x or Decimal(0)" is Decimal(0) for None and for a zero
TotalDebt(shortDebt, longDebt) ==
  IF shortDebt # None \/ longDebt # None
  THEN Add(IF shortDebt # None /\ shortDebt[1] # 0 THEN shortDebt ELSE Decimal(0),
           IF longDebt # None /\ longDebt[1] # 0 THEN longDebt ELSE Decimal(0))
  ELSE None

BaseRow(company, symbol, freq, S, d) ==
  LET totalRevenue == val(S.rev_s, d)
      grossProfit == val(S.gp_s, d)
      netIncome == val(S.ni_s, d)
      rd_expense == val(S.rd_s, d)
      cash == val(S.cash_s, d)
      shortDebt == val(S.sdebt_s, d)
      longDebt == val(S.ldebt_s, d)
      totalLiab == val(S.tliab_s, d)
      equity == val(S.equity_s, d)
      currAssets == val(S.ca_s, d)
      currLiab == val(S.cl_s, d)
      opCF == val(S.ocf_s, d)
      capex == val(S.capex_s, d)
      fcf == FreeCashFlow(opCF, capex)
      totalDebt == TotalDebt(shortDebt, longDebt)
      ds == fiscalDateOf(d)
      m0 ==
        [fiscalDate |-> ds,
         totalRevenue |-> _fmt(totalRevenue, 2),
         grossProfit |-> _fmt(grossProfit, 2),
         netIncome |-> _fmt(netIncome, 2),
         grossMargin_pct |-> _fmt(_pct(_div(grossProfit, totalRevenue)), 2),
         netMargin_pct |-> _fmt(_pct(_div(netIncome, totalRevenue)), 2),
         operatingCashflow |-> _fmt(opCF, 2),
         capitalExpenditures |-> _fmt(capex, 2),
         freeCashFlow |-> _fmt(fcf, 2),
         cashAndCashEquivalents |-> _fmt(cash, 2),
         shortTermDebt |-> _fmt(shortDebt, 2),
         longTermDebt |-> _fmt(longDebt, 2),
         totalDebt |-> IF totalDebt # None THEN _fmt(totalDebt, 2) ELSE None,
         totalLiabilities |-> _fmt(totalLiab, 2),
         totalShareholderEquity |-> _fmt(equity, 2),
         totalCurrentAssets |-> _fmt(currAssets, 2),
         totalCurrentLiabilities |-> _fmt(currLiab, 2),
         debtToEquity |-> _fmt(_div(totalLiab, equity), 4),
         currentRatio |-> _fmt(_div(currAssets, currLiab), 4),
         cashRatio |-> _fmt(_div(cash, currLiab), 4),
         researchAndDevelopment |-> _fmt(rd_expense, 2),
         rdIntensity_pct |-> _fmt(_pct(_div(rd_expense, totalRevenue)), 2),
         capexToRevenue_pct |-> _fmt(_pct(_div(capex, totalRevenue)), 2)]
  IN  [company |-> company,
       symbol |-> symbol,
       freq |-> freq,
       fiscalDate |-> ds,
       metrics |-> ("distressFlags" :> Flags(m0)) @@ m0,
       summary |-> <<company, freq, ds, m0.totalRevenue, m0.netIncome,
                     m0.grossMargin_pct, m0.netMargin_pct>>,
       source |-> "YahooFinance"]

BaseRows(company, symbol, freq, S, dates) ==
  [i \in 1..Len(dates) |-> BaseRow(company, symbol, freq, S, dates[i])]

(***************************************************************************)
(* build_rows_from_dfs, lines 176-196: QoQ / YoY on the sorted list.       *)
(***************************************************************************)
GrowthKeys == <<"totalRevenue", "netIncome">>

\* isinstance(v, (int, float)): a metric value is a float or None
IsNumber(v) == v # None

\* round((cv - pv) / pv * 100, 2), pv # 0
GrowthPct(cv, pv) ==
  round(_pct(Quotient(Sub(cv, pv), pv)), 2)

\* mutant: the field is set to None where the code leaves it out
RECURSIVE WithGrowth_sets_null(_, _, _, _)
WithGrowth_sets_null(m, prev_m, suffix, i) ==
  IF i > Len(GrowthKeys) THEN m
  ELSE LET k == GrowthKeys[i]
           cv == m[k]
           pv == prev_m[k]
           m1 == IF IsNumber(cv) /\ IsNumber(pv) /\ pv[1] # 0
                 THEN ((k \o suffix) :> GrowthPct(cv, pv)) @@ m
                 ELSE ((k \o suffix) :> None) @@ m
       IN  WithGrowth_sets_null(m1, prev_m, suffix, i + 1)

\* the inner loop over the two keys: m[k + suffix] is set when both values are
\* numbers and pv is truthy (not 0.0)
RECURSIVE WithGrowth(_, _, _, _)
WithGrowth(m, prev_m, suffix, i) ==
  IF i > Len(GrowthKeys) THEN m
  ELSE LET k == GrowthKeys[i]
           cv == m[k]
           pv == prev_m[k]
           m1 == IF IsNumber(cv) /\ IsNumber(pv) /\ pv[1] # 0
                 THEN ((k \o suffix) :> GrowthPct(cv, pv)) @@ m
                 ELSE m
       IN  WithGrowth(m1, prev_m, suffix, i + 1)

\* by_date.get(key): the dict keeps the last row of a fiscalDate
by_date_get(rows, key) ==
  LET hits == {j \in 1..Len(rows) : rows[j].fiscalDate = key}
  IN  IF hits = {} THEN None
      ELSE <<rows[CHOOSE j \in hits : \A h \in hits : h <= j]>>

\* mutant: the year not decremented
PrevYearKey_same_year(ds) == IntStr(IntOf(Prefix(ds, 4))) \o <<"-">> \o Suffix(ds, 5)

\* the key of the prior-year row; int() raising leaves the row as it is
PrevYearKey(ds) == IntStr(IntOf(Prefix(ds, 4)) - 1) \o <<"-">> \o Suffix(ds, 5)

GrowthRow(rows, i) ==
  LET row == rows[i]
      m == row.metrics
      m1 == IF i + 1 <= Len(rows)
            THEN WithGrowth(m, rows[i + 1].metrics, "_QoQ_growth_pct", 1)
            ELSE m
      prev_y == IF IntParses(Prefix(row.fiscalDate, 4))
                THEN by_date_get(rows, PrevYearKey(row.fiscalDate))
                ELSE None
      m2 == IF prev_y # None
            THEN WithGrowth(m1, prev_y[1].metrics, "_YoY_growth_pct", 1)
            ELSE m1
  IN  [row EXCEPT !.metrics = m2]

Growth(rows) == [i \in 1..Len(rows) |-> GrowthRow(rows, i)]

\* the result is [raised, rows]: raised when sorted() raises TypeError
build_rows_from_dfs(company, symbol, inc, bal, cf, freq) ==
  LET S == Resolved(inc, bal, cf)
      dates == Dates(S)
  IN  IF dates.raised THEN [raised |-> TRUE, rows |-> <<>>]
      ELSE [raised |-> FALSE,
            rows |-> Growth(BaseRows(company, symbol, freq, S, dates.list))]

(***************************************************************************)
(* Inputs: the statement tables the data source can hand over.             *)
(***************************************************************************)
\* line-item labels that occur in the tables drawn ("EBITDA" is no alias)
IncLabels == {"Total Revenue", "Revenue", "Gross Profit", "Net Income", "R&D", "EBITDA"}
BalLabels == {"Cash And Cash Equivalents", "Short Term Debt", "Long Term Debt",
              "Total Liab", "StockholdersEquity", "Total Current Assets",
              "CurrentLiabilities"}
CfLabels == {"Operating Cash Flow", "CapitalExpenditure"}

\* period labels: three period ends as Timestamps, three labels as str
Q4 == Timestamp(2023, 12, 31)
Q3 == Timestamp(2023, 9, 30)
PrevQ4 == Timestamp(2022, 12, 31)
TTM == Str(<<"T", "T", "M">>)
StrQ4 == Str(<<"2", "0", "2", "3", "-", "Q", "4">>)
StrPrevQ4 == Str(<<"2", "0", "2", "2", "-", "Q", "4">>)
Periods == {Q4, Q3, PrevQ4, TTM, StrQ4, StrPrevQ4}

\* cell values: small integer amounts, an amount below one cent, a ratio that
\* rounds to 1.0000 at four digits, and a text cell
Amounts == {Number(n, 1) : n \in (-1)..MaxAmount}
CellValues == Amounts \cup {Number(4, 1000), Number(99998, 100000), Text}

\* data: the cell of each <<label, column>>
DataFrame(index, columns, data) ==
  [index |-> index, columns |-> columns, data |-> data]

EmptyDf == DataFrame({}, {}, [p \in {} \X {} |-> NaN])

\* a table whose cells are NaN except those of entries, a set of <<label, column, value>>
Sparse(labels, columns, entries) ==
  LET cell(l, c) == IF \E e \in entries : e[1] = l /\ e[2] = c
                    THEN (CHOOSE e \in entries : e[1] = l /\ e[2] = c)[3]
                    ELSE NaN
  IN  DataFrame(labels, columns, [p \in labels \X columns |-> cell(p[1], p[2])])

\* a table every cell of which holds an amount: 1 in the periods of 2022, else 2
Filled(labels, columns) ==
  LET cell(l, c) == IF c \in {PrevQ4, StrPrevQ4} THEN Number(1, 1) ELSE Number(2, 1)
  IN  DataFrame(labels, columns, [p \in labels \X columns |-> cell(p[1], p[2])])

Freqs == {"Quarter", "Annual"}


(***************************************************************************)
(* Inputs of build_rows_from_dfs.                                          *)
(*  - value inputs: the three tables share the columns Q4, Q3, PrevQ4, hold *)
(*    one label per canonical metric, and at most two cells are not NaN,    *)
(*    two such cells being of one label or of one period;                   *)
(*  - structure inputs: two of the three tables have any of a few label     *)
(*    sets and any at most MaxCols period columns, all cells filled; the    *)
(*    third table is empty.                                                 *)
(***************************************************************************)
ValueColumns == {Q4, Q3, PrevQ4}
ValueIncLabels == {"Total Revenue", "Gross Profit", "Net Income", "R&D"}


\* the cells of the three tables, numbered, and the sets of at most two entries
Cells ==
  LET labels == <<"Total Revenue", "Gross Profit", "Net Income", "R&D",
                  "Cash And Cash Equivalents", "Short Term Debt", "Long Term Debt",
                  "Total Liab", "StockholdersEquity", "Total Current Assets",
                  "CurrentLiabilities", "Operating Cash Flow", "CapitalExpenditure">>
      columns == <<Q4, Q3, PrevQ4>>
  IN  [k \in 1..(Len(labels) * Len(columns)) |->
         <<labels[((k - 1) \div Len(columns)) + 1], columns[((k - 1) % Len(columns)) + 1]>>]

Entry(k, v) == <<Cells[k][1], Cells[k][2], v>>

ValueInput(es) ==
  [inc |-> Sparse(ValueIncLabels, ValueColumns, es),
   bal |-> Sparse(BalLabels, ValueColumns, es),
   cf |-> Sparse(CfLabels, ValueColumns, es)]

ColumnSets == {cs \in SUBSET Periods : Cardinality(cs) <= MaxCols}

IncIndexes == {{"EBITDA"}, {"Revenue", "Net Income"}}
BalIndexes == {{}, {"Total Current Assets", "CurrentLiabilities"}}
CfIndexes == {{}, {"Operating Cash Flow", "CapitalExpenditure"}}

Tables(indexes) == {Filled(ix, cs) : ix \in indexes, cs \in ColumnSets}

StructureInputs ==
  {[inc |-> a, bal |-> b, cf |-> EmptyDf] : a \in Tables(IncIndexes), b \in Tables(BalIndexes)}
  \cup {[inc |-> a, bal |-> EmptyDf, cf |-> c] : a \in Tables(IncIndexes), c \in Tables(CfIndexes)}
  \cup {[inc |-> EmptyDf, bal |-> b, cf |-> c] : b \in Tables(BalIndexes), c \in Tables(CfIndexes)}

(***************************************************************************)
(* Specification SpecBuild: build_rows_from_dfs applied to drawn tables.   *)
(***************************************************************************)
NotRun == [raised |-> FALSE, rows |-> <<>>]

\* the variables of the other specifications, at rest
IdleResolve == df = EmptyDf /\ name_list = <<>> /\ series = None
IdleBuild ==
  /\ inc_df = EmptyDf /\ bal_df = EmptyDf /\ cf_df = EmptyDf
  /\ freq_label = "" /\ out = NotRun
IdleMain ==
  /\ symbol_map = <<>> /\ idx = 0 /\ all_records = <<>>
  /\ visits = <<>> /\ written = <<>>

InitBuildPairs ==
  /\ \E j \in DOMAIN Cells, v \in CellValues, w \in CellValues :
       \E k \in {i \in 1..(j - 1) : Cells[i][1] = Cells[j][1] \/ Cells[i][2] = Cells[j][2]} :
         LET t == ValueInput({Entry(k, v), Entry(j, w)})
         IN  inc_df = t.inc /\ bal_df = t.bal /\ cf_df = t.cf
  /\ freq_label = "" /\ out = NotRun
  /\ pc = "build"
  /\ IdleResolve /\ IdleMain

InitBuild ==
  /\ \E t \in {ValueInput({})}
            \cup {ValueInput({Entry(k, v)}) : k \in DOMAIN Cells, v \in CellValues}
            \cup StructureInputs :
       inc_df = t.inc /\ bal_df = t.bal /\ cf_df = t.cf
  /\ freq_label = "" /\ out = NotRun
  /\ pc = "build"
  /\ IdleResolve /\ IdleMain

BuildRows ==
  /\ pc = "build"
  /\ \E f \in Freqs :
       /\ freq_label' = f
       /\ out' = build_rows_from_dfs("ASML", "ASML", inc_df, bal_df, cf_df, f)
  /\ pc' = "built"
  /\ UNCHANGED <<inc_df, bal_df, cf_df, df, name_list, series,
                 symbol_map, idx, all_records, visits, written>>

NextBuild == BuildRows

SpecBuild == (InitBuild \/ InitBuildPairs) /\ [][NextBuild]_vars


(***************************************************************************)
(* Specification SpecResolve: get_first applied to drawn tables and lists. *)
(***************************************************************************)
ResolveLabels == {"Total Revenue", "TotalRevenue", "Revenue", "Net Income", "NetIncome",
                  "EBITDA"}

\* a table of one period whose rows differ: the row of a label holds its number
ResolveTable(index) ==
  LET number(l) == CASE l = "Total Revenue" -> 1 [] l = "TotalRevenue" -> 2
                     [] l = "Revenue" -> 3 [] l = "Net Income" -> 4
                     [] l = "NetIncome" -> 5 [] OTHER -> 6
      cell(l, c) == Number(number(l), 1)
  IN  DataFrame(index, {Q4}, [p \in index \X {Q4} |-> cell(p[1], p[2])])

Reverse(l) == [i \in 1..Len(l) |-> l[Len(l) + 1 - i]]

\* the configured lists of the income table, and two of them in reverse order
ResolveLists ==
  {INC_FIELDS.revenue, INC_FIELDS.grossProfit, INC_FIELDS.netIncome, INC_FIELDS.rd,
   Reverse(INC_FIELDS.revenue), Reverse(INC_FIELDS.netIncome)}

InitResolve ==
  /\ \E ix \in SUBSET ResolveLabels : df = ResolveTable(ix)
  /\ name_list \in ResolveLists
  /\ series = None
  /\ pc = "resolve"
  /\ IdleBuild /\ IdleMain

Resolve ==
  /\ pc = "resolve"
  /\ series' = get_first(df, name_list)
  /\ pc' = "resolved"
  /\ UNCHANGED <<inc_df, bal_df, cf_df, freq_label, out, df, name_list,
                 symbol_map, idx, all_records, visits, written>>

NextResolve == Resolve

SpecResolve == InitResolve /\ [][NextResolve]_vars

(***************************************************************************)
(* fetch_yahoo_financials.  A Ticker t is [raises, financials, ...]: raises *)
(* when reading one of its tables raises (transport or parse error).        *)
(***************************************************************************)
\* mutant: the growth calculator run once over the quarterly and annual rows
fetch_growth_over_both(company, symbol, t) ==
  IF symbol = "" THEN [raised |-> FALSE, rows |-> <<>>]
  ELSE IF t.raises THEN [raised |-> TRUE, rows |-> <<>>]
  ELSE LET SQ == Resolved(t.quarterly_financials, t.quarterly_balance_sheet,
                          t.quarterly_cashflow)
           SA == Resolved(t.financials, t.balance_sheet, t.cashflow)
       IN  IF Dates(SQ).raised \/ Dates(SA).raised
           THEN [raised |-> TRUE, rows |-> <<>>]
           ELSE [raised |-> FALSE,
                 rows |-> Growth(BaseRows(company, symbol, "Quarter", SQ, Dates(SQ).list)
                                 \o BaseRows(company, symbol, "Annual", SA, Dates(SA).list))]

\* lines 217-219: records += the quarterly rows, then the annual rows;
\* an exception of either build leaves the function
extend(q, a) ==
  IF q.raised \/ a.raised THEN [raised |-> TRUE, rows |-> <<>>]
  ELSE [raised |-> FALSE, rows |-> q.rows \o a.rows]

fetch_yahoo_financials(company, symbol, t) ==
  IF symbol = "" THEN [raised |-> FALSE, rows |-> <<>>]
  ELSE IF t.raises THEN [raised |-> TRUE, rows |-> <<>>]
  ELSE extend(build_rows_from_dfs(company, symbol, t.quarterly_financials,
                                  t.quarterly_balance_sheet, t.quarterly_cashflow,
                                  "Quarter"),
              build_rows_from_dfs(company, symbol, t.financials, t.balance_sheet,
                                  t.cashflow, "Annual"))

(***************************************************************************)
(* write_outputs: the JSON lines and the flat, sorted CSV rows.            *)
(***************************************************************************)
get(m, k) == IF k \in DOMAIN m THEN m[k] ELSE None

FlatRow(rec) ==
  LET m == rec.metrics
  IN  [symbol |-> rec.symbol,
       frequency |-> rec.freq,
       fiscalDate |-> rec.fiscalDate,
       revenue |-> get(m, "totalRevenue"),
       grossProfit |-> get(m, "grossProfit"),
       netIncome |-> get(m, "netIncome"),
       grossMargin_pct |-> get(m, "grossMargin_pct"),
       netMargin_pct |-> get(m, "netMargin_pct"),
       revenue_QoQ_growth_pct |-> get(m, "totalRevenue_QoQ_growth_pct"),
       revenue_YoY_growth_pct |-> get(m, "totalRevenue_YoY_growth_pct"),
       netIncome_QoQ_growth_pct |-> get(m, "netIncome_QoQ_growth_pct"),
       netIncome_YoY_growth_pct |-> get(m, "netIncome_YoY_growth_pct"),
       operatingCashflow |-> get(m, "operatingCashflow"),
       freeCashFlow |-> get(m, "freeCashFlow"),
       debtToEquity |-> get(m, "debtToEquity"),
       currentRatio |-> get(m, "currentRatio"),
       cashRatio |-> get(m, "cashRatio"),
       researchAndDevelopment |-> get(m, "researchAndDevelopment"),
       rdIntensity_pct |-> get(m, "rdIntensity_pct"),
       capexToRevenue_pct |-> get(m, "capexToRevenue_pct"),
       source |-> "YahooFinance"]

\* the symbols of SYMBOL_MAP and the frequency labels, in string order
SymbolsInOrder == <<"002371.SZ", "2802.T", "3583.TW", "8035.T", "8257.HK", "AIXA.DE",
                    "AMAT", "AME", "ASML", "KLAC", "OSIS">>
FreqsInOrder == <<"Annual", "Quarter">>
Rank(l, x) == CHOOSE i \in DOMAIN l : l[i] = x

\* the order of sort_values: symbol and frequency ascending, fiscalDate descending
FlatBefore(a, b) ==
  \/ Rank(SymbolsInOrder, a.symbol) < Rank(SymbolsInOrder, b.symbol)
  \/ /\ a.symbol = b.symbol
     /\ \/ Rank(FreqsInOrder, a.frequency) < Rank(FreqsInOrder, b.frequency)
        \/ a.frequency = b.frequency /\ StrLess(b.fiscalDate, a.fiscalDate)

RECURSIVE sort_values(_)
sort_values(l) ==
  IF l = <<>> THEN <<>>
  ELSE LET firsts == {i \in DOMAIN l : \A j \in DOMAIN l : ~FlatBefore(l[j], l[i])}
           i == CHOOSE i \in firsts : \A j \in firsts : i <= j
       IN  <<l[i]>> \o sort_values(Without(l, i))

write_outputs(records) ==
  [jsonl |-> records,
   csv |-> sort_values([i \in DOMAIN records |-> FlatRow(records[i])])]

(***************************************************************************)
(* main.                                                                   *)
(***************************************************************************)
SYMBOL_MAP ==
  <<<<"AIXTRON", "AIXA.DE">>, <<"Applied Materials", "AMAT">>, <<"AJ", "2802.T">>,
    <<"ASML", "ASML">>, <<"Naura", "002371.SZ">>, <<"TEL (Tokyo Electron)", "8035.T">>,
    <<"KLA", "KLAC">>, <<"CAMECA (AMTEK)", "AME">>, <<"OSI Systems", "OSIS">>,
    <<"Genes Tech", "8257.HK">>, <<"Scientech", "3583.TW">>>>

\* the maps walked: the first MaxCompanies companies, each with its symbol or none
SymbolMaps ==
  {[i \in 1..MaxCompanies |->
      <<SYMBOL_MAP[i][1], IF i \in blank THEN "" ELSE SYMBOL_MAP[i][2]>>] :
   blank \in SUBSET (1..MaxCompanies)}

\* what the data source answers for a symbol: revenue of two quarters and of
\* two years, or tables without any known label, or a quarterly table whose
\* period labels do not compare, or an error
RevenueTable(columns, newer, older) ==
  LET cell(l, c) == IF c = Q4 THEN Number(newer, 1) ELSE Number(older, 1)
  IN  DataFrame({"Total Revenue"}, columns,
                [p \in {"Total Revenue"} \X columns |-> cell(p[1], p[2])])

Ticker(inc_q, inc_a) ==
  [raises |-> FALSE,
   financials |-> inc_a, balance_sheet |-> EmptyDf, cashflow |-> EmptyDf,
   quarterly_financials |-> inc_q, quarterly_balance_sheet |-> EmptyDf,
   quarterly_cashflow |-> EmptyDf]

Tickers ==
  {Ticker(RevenueTable({Q4, Q3}, a, b), RevenueTable({Q4, PrevQ4}, c, 1)) :
     a \in {1, 2}, b \in {1, 2}, c \in {1, 2}}
  \cup {Ticker(EmptyDf, EmptyDf),
        Ticker(RevenueTable({Q4, TTM}, 2, 1), RevenueTable({Q4, PrevQ4}, 2, 1)),
        [Ticker(EmptyDf, EmptyDf) EXCEPT !.raises = TRUE]}

\* mutant: a failed company empties the aggregate
main_body_drops_aggregate(records, recs) ==
  IF recs.raised THEN <<>> ELSE records \o recs.rows

\* lines 270-276: the aggregate after one company, recs being the outcome of
\* its fetch; an exception leaves the aggregate as it is
main_body(records, recs) ==
  IF recs.raised THEN records ELSE records \o recs.rows

Init ==
  /\ symbol_map \in SymbolMaps
  /\ pc = "loop" /\ idx = 1
  /\ all_records = <<>> /\ visits = <<>> /\ written = <<>>
  /\ IdleBuild /\ IdleResolve

\* one iteration of the loop of main; visits records what the iteration printed
\* and the rows the fetch returned
MainLoop ==
  /\ pc = "loop" /\ idx <= Len(symbol_map)
  /\ LET company == symbol_map[idx][1]
         symbol == symbol_map[idx][2]
     IN  \E t \in IF symbol = "" THEN {Ticker(EmptyDf, EmptyDf)} ELSE Tickers :
           \E recs \in {fetch_yahoo_financials(company, symbol, t)} :
             /\ all_records' = main_body(all_records, recs)
             /\ visits' = Append(visits,
                  [company |-> company, symbol |-> symbol,
                   outcome |-> IF recs.raised THEN "failed"
                               ELSE IF symbol = "" THEN "no_symbol" ELSE "ok",
                   recs |-> recs.rows])
  /\ idx' = idx + 1
  /\ UNCHANGED <<inc_df, bal_df, cf_df, freq_label, out, df, name_list, series,
                 symbol_map, pc, written>>

\* line 278, after the loop
WriteOutputs ==
  /\ pc = "loop" /\ idx > Len(symbol_map)
  /\ written' = Append(written, write_outputs(all_records))
  /\ pc' = "done"
  /\ UNCHANGED <<inc_df, bal_df, cf_df, freq_label, out, df, name_list, series,
                 symbol_map, idx, all_records, visits>>

Next == MainLoop \/ WriteOutputs

Spec == Init /\ [][Next]_vars

(***************************************************************************)
(* Claims about build_rows_from_dfs, checked under SpecBuild.              *)
(***************************************************************************)
Built == pc = "built" /\ ~out.raised

\* the period label a row was built for
ColumnOf(r) ==
  CHOOSE c \in inc_df.columns \cup bal_df.columns \cup cf_df.columns :
    r.fiscalDate = (IF c.kind = "Timestamp" THEN IsoDate(c.ymd) ELSE c.text)

\* the input of a canonical metric at a period, read off the table itself: the
\* cell of the first listed alias that labels the table, null when no alias
\* does, when the table has no such period, or when the cell holds no number
InputAt(table, names, c) ==
  LET present == {i \in DOMAIN names : names[i] \in table.index}
  IN  IF present = {} \/ c \notin table.columns THEN None
      ELSE LET first == CHOOSE i \in present : \A j \in present : i <= j
               cell == table.data[<<names[first], c>>]
           IN  IF cell.kind = "num" THEN <<cell.num, cell.den>> ELSE None

\* the ratio and percentage metrics of a period: name, numerator, denominator
RatioMetrics(c) ==
  LET rev == InputAt(inc_df, INC_FIELDS.revenue, c)
      cl == InputAt(bal_df, BAL_FIELDS.currLiab, c)
  IN  {<<"grossMargin_pct", InputAt(inc_df, INC_FIELDS.grossProfit, c), rev>>,
       <<"netMargin_pct", InputAt(inc_df, INC_FIELDS.netIncome, c), rev>>,
       <<"rdIntensity_pct", InputAt(inc_df, INC_FIELDS.rd, c), rev>>,
       <<"capexToRevenue_pct", InputAt(cf_df, CF_FIELDS.capex, c), rev>>,
       <<"debtToEquity", InputAt(bal_df, BAL_FIELDS.totalLiab, c),
         InputAt(bal_df, BAL_FIELDS.equity, c)>>,
       <<"currentRatio", InputAt(bal_df, BAL_FIELDS.currAssets, c), cl>>,
       <<"cashRatio", InputAt(bal_df, BAL_FIELDS.cash, c), cl>>}

\* C1: in every emitted row, each ratio or percentage metric is null exactly
\* when its numerator is null or its denominator is null or zero, and
\* freeCashFlow is null exactly when opCF or capex is null.
C1_NullIffInputMissing ==
  Built =>
    \A i \in DOMAIN out.rows :
      LET r == out.rows[i]
          c == ColumnOf(r)
      IN  /\ \A q \in RatioMetrics(c) :
               (r.metrics[q[1]] = None) <=> (q[2] = None \/ q[3] = None \/ q[3][1] = 0)
          /\ (r.metrics.freeCashFlow = None)
               <=> (InputAt(cf_df, CF_FIELDS.opCF, c) = None
                    \/ InputAt(cf_df, CF_FIELDS.capex, c) = None)

\* a row whose revenue is zero and whose gross profit is present: null margin
C1_Witness ==
  /\ Built
  /\ \E i \in DOMAIN out.rows :
       LET c == ColumnOf(out.rows[i])
           rev == InputAt(inc_df, INC_FIELDS.revenue, c)
       IN  /\ rev # None /\ rev[1] = 0
           /\ InputAt(inc_df, INC_FIELDS.grossProfit, c) # None
           /\ out.rows[i].metrics.grossMargin_pct = None
           /\ out.rows[i].metrics.totalRevenue # None

IsRounded(x, y) ==
  LET z == Plus(x, Negated(y)) IN 2 * Abs(z[1]) * x[2] <= z[2]

HasFlag(r, f) == \E j \in DOMAIN r.metrics.distressFlags : r.metrics.distressFlags[j] = f

C6_TotalDebt ==
  Built =>
    \A i \in DOMAIN out.rows :
      LET r == out.rows[i]
          c == ColumnOf(r)
          sd == InputAt(bal_df, BAL_FIELDS.shortDebt, c)
          ld == InputAt(bal_df, BAL_FIELDS.longDebt, c)
          zero(x) == IF x = None THEN <<0, 1>> ELSE x
      IN  /\ (r.metrics.totalDebt = None) <=> (sd = None /\ ld = None)
          /\ r.metrics.totalDebt # None =>
               /\ r.metrics.totalDebt[2] = 100
               /\ IsRounded(r.metrics.totalDebt, Plus(zero(sd), zero(ld)))

\* one component present (a zero), the other null: totalDebt is 0.00, not null
C6_Witness ==
  /\ Built
  /\ \E i \in DOMAIN out.rows :
       LET c == ColumnOf(out.rows[i])
       IN  /\ InputAt(bal_df, BAL_FIELDS.shortDebt, c) = <<0, 1>>
           /\ InputAt(bal_df, BAL_FIELDS.longDebt, c) = None
           /\ out.rows[i].metrics.totalDebt = <<0, 100>>

\* a table contributes its periods when one of its canonical metrics resolves
Resolves(table, fields) ==
  \E k \in DOMAIN fields : \E i \in DOMAIN fields[k] : fields[k][i] \in table.index

ResolvedPeriods ==
  (IF Resolves(inc_df, INC_FIELDS) THEN inc_df.columns ELSE {})
  \cup (IF Resolves(bal_df, BAL_FIELDS) THEN bal_df.columns ELSE {})
  \cup (IF Resolves(cf_df, CF_FIELDS) THEN cf_df.columns ELSE {})

\* C9: the rows returned are one per period of the union of the periods of the
\* resolved series of the three tables; with no resolved series the result is
\* the empty list and nothing is raised.
C9_RowsAreUnionOfPeriods ==
  /\ Built =>
       /\ {out.rows[i].fiscalDate : i \in DOMAIN out.rows}
            = {IF c.kind = "Timestamp" THEN IsoDate(c.ymd) ELSE c.text : c \in ResolvedPeriods}
       /\ Len(out.rows) = Cardinality(ResolvedPeriods)
  /\ (pc = "built" /\ ResolvedPeriods = {}) => (~out.raised /\ out.rows = <<>>)

\* a period of the cash-flow table only and another of the income table only
C9_Witness ==
  /\ Built /\ Len(out.rows) = 2
  /\ Resolves(inc_df, INC_FIELDS) /\ Resolves(cf_df, CF_FIELDS)
  /\ Cardinality(inc_df.columns) = 1 /\ Cardinality(cf_df.columns) = 1
  /\ inc_df.columns # cf_df.columns
  /\ out.rows[1].metrics.operatingCashflow = None
       <=> out.rows[2].metrics.operatingCashflow # None

\* the names of the growth fields
QoQField(k) ==
  IF k = "totalRevenue" THEN "totalRevenue_QoQ_growth_pct" ELSE "netIncome_QoQ_growth_pct"
YoYField(k) ==
  IF k = "totalRevenue" THEN "totalRevenue_YoY_growth_pct" ELSE "netIncome_YoY_growth_pct"
GrowthKeySet == {"totalRevenue", "netIncome"}

\* g is (cv - pv) / pv * 100 at two digits, for stored values cv and pv, pv # 0
IsGrowthOf(g, cv, pv) ==
  /\ g # None /\ g[2] = 100
  /\ IsRounded(g, Quotient(<<100 * Plus(cv, Negated(pv))[1], Plus(cv, Negated(pv))[2]>>, pv))

\* C2: the QoQ field of a key is in the metrics of the row at index i exactly
\* when a row i+1 exists, both rows hold a value of the key and the value of
\* row i+1 is not 0; it then is (curr - prev) / prev * 100 at two digits, on
\* the newer row; otherwise the field is absent, not null.
C2_QoQGrowth ==
  Built =>
    \A i \in DOMAIN out.rows : \A k \in GrowthKeySet :
      LET m == out.rows[i].metrics
          has == /\ i + 1 <= Len(out.rows)
                 /\ m[k] # None
                 /\ out.rows[i + 1].metrics[k] # None
                 /\ out.rows[i + 1].metrics[k][1] # 0
      IN  /\ (QoQField(k) \in DOMAIN m) <=> has
          /\ has => IsGrowthOf(m[QoQField(k)], m[k], out.rows[i + 1].metrics[k])

\* revenue 1.00 then 2.00 in adjacent periods: 100.00 on the newer row, and no
\* net-income field on it
C2_Witness ==
  /\ Built /\ Len(out.rows) >= 2
  /\ \E i \in 1..(Len(out.rows) - 1) :
       /\ out.rows[i].metrics.totalRevenue = <<200, 100>>
       /\ out.rows[i + 1].metrics.totalRevenue = <<100, 100>>
       /\ "totalRevenue_QoQ_growth_pct" \in DOMAIN out.rows[i].metrics
       /\ out.rows[i].metrics["totalRevenue_QoQ_growth_pct"] = <<10000, 100>>
       /\ "netIncome_QoQ_growth_pct" \notin DOMAIN out.rows[i].metrics
       /\ "totalRevenue_QoQ_growth_pct" \notin DOMAIN out.rows[i + 1].metrics

\* the rows built for a period label
RowsOf(c) == {j \in DOMAIN out.rows : ColumnOf(out.rows[j]) = c}

PriorYear(c) == Timestamp(c.ymd[1] - 1, c.ymd[2], c.ymd[3])

IsIsoDateString(t) ==
  /\ Len(t) = 10 /\ t[5] = "-" /\ t[8] = "-"
  /\ \A i \in {1, 2, 3, 4, 6, 7, 9, 10} : IsDigit(t[i])

\* rows of a date: YoY from the row of the date one calendar year earlier
YoYOfDateRows ==
  \A i \in DOMAIN out.rows : \A k \in GrowthKeySet :
    LET m == out.rows[i].metrics
        c == ColumnOf(out.rows[i])
    IN  c.kind = "Timestamp" =>
          /\ \A j \in RowsOf(PriorYear(c)) :
               (m[k] # None /\ out.rows[j].metrics[k] # None
                  /\ out.rows[j].metrics[k][1] # 0)
               => /\ YoYField(k) \in DOMAIN m
                  /\ IsGrowthOf(m[YoYField(k)], m[k], out.rows[j].metrics[k])
          /\ RowsOf(PriorYear(c)) = {} => YoYField(k) \notin DOMAIN m

AllRowsReturned ==
  Len(out.rows) = Cardinality(ResolvedPeriods)

C10_FirstMatchWins ==
  pc = "resolved" =>
    /\ (series = None) <=> (\A i \in DOMAIN name_list : name_list[i] \notin df.index)
    /\ series # None =>
         \E i \in DOMAIN name_list :
           /\ name_list[i] \in df.index
           /\ \A j \in 1..(i - 1) : name_list[j] \notin df.index
           /\ series[1].name = name_list[i]
           /\ \A c \in df.columns : series[1].data[c] = df.data[<<name_list[i], c>>]

\* the first alias is missing, the two later ones are present: the second wins
C10_Witness ==
  /\ pc = "resolved"
  /\ name_list = INC_FIELDS.revenue
  /\ "Total Revenue" \notin df.index
  /\ {"TotalRevenue", "Revenue"} \subseteq df.index
  /\ series # None /\ series[1].name = "TotalRevenue"

(***************************************************************************)
(* Claims about main and fetch_yahoo_financials, checked under Spec.       *)
(***************************************************************************)
\* the rows of the visited companies that succeeded, in visiting order
RECURSIVE RowsOfSucceeded(_)
RowsOfSucceeded(v) ==
  IF v = <<>> THEN <<>>
  ELSE RowsOfSucceeded(SubSeq(v, 1, Len(v) - 1))
       \o (IF v[Len(v)].outcome = "ok" THEN v[Len(v)].recs ELSE <<>>)

\* C7: main visits the companies once each in map order, whatever their
\* outcomes, then calls write_outputs exactly once, with the rows of exactly the
\* companies that succeeded, in map order; a company without symbol or whose
\* processing raised contributes no row and changes no other company's rows.
C7_AggregateOfSucceeded ==
  /\ Len(visits) <= Len(symbol_map)
  /\ \A i \in DOMAIN visits :
       /\ visits[i].company = symbol_map[i][1]
       /\ visits[i].symbol = "" => visits[i].outcome = "no_symbol"
       /\ visits[i].outcome # "ok" => visits[i].recs = <<>>
  /\ all_records = RowsOfSucceeded(visits)
  /\ pc = "loop" => (written = <<>> /\ idx = Len(visits) + 1)
  /\ pc = "done" =>
       /\ Len(visits) = Len(symbol_map)
       /\ Len(written) = 1
       /\ written[1].jsonl = RowsOfSucceeded(visits)

\* a run with a company without symbol, one that failed and then one that
\* succeeded with rows, all written
C7_Witness ==
  /\ pc = "done" /\ Len(written) = 1
  /\ \E i, j, k \in DOMAIN visits :
       /\ j < k
       /\ visits[i].outcome = "no_symbol"
       /\ visits[j].outcome = "failed"
       /\ visits[k].outcome = "ok" /\ visits[k].recs # <<>>
       /\ written[1].jsonl = visits[k].recs

IsPriorYearDate(p, d) ==
  /\ Len(p) = 10 /\ Len(d) = 10
  /\ IntOf(SubSeq(p, 1, 4)) = IntOf(SubSeq(d, 1, 4)) - 1
  /\ SubSeq(p, 5, 10) = SubSeq(d, 5, 10)

\* C8: a QoQ value on a row of the aggregate comes from that row and the next
\* row, which is of the same company and frequency; a YoY value comes from that
\* row and a row of the same company and frequency dated one year earlier.
C8_GrowthWithinCompanyAndFrequency ==
  \A i \in DOMAIN all_records : \A k \in GrowthKeySet :
    LET r == all_records[i]
        m == r.metrics
    IN  /\ QoQField(k) \in DOMAIN m =>
             /\ i + 1 <= Len(all_records)
             /\ all_records[i + 1].company = r.company
             /\ all_records[i + 1].freq = r.freq
             /\ m[k] # None /\ all_records[i + 1].metrics[k] # None
             /\ all_records[i + 1].metrics[k][1] # 0
             /\ IsGrowthOf(m[QoQField(k)], m[k], all_records[i + 1].metrics[k])
        /\ YoYField(k) \in DOMAIN m =>
             \E j \in DOMAIN all_records :
               /\ all_records[j].company = r.company
               /\ all_records[j].freq = r.freq
               /\ IsPriorYearDate(all_records[j].fiscalDate, r.fiscalDate)
               /\ m[k] # None /\ all_records[j].metrics[k] # None
               /\ all_records[j].metrics[k][1] # 0
               /\ IsGrowthOf(m[YoYField(k)], m[k], all_records[j].metrics[k])

\* the last Quarter row of a company, with revenue, directly before its first
\* Annual row, with revenue: no QoQ on it; and its Quarter row of 2023-12-31
\* has no YoY although an Annual row of 2022-12-31 exists
C8_Witness ==
  \E i \in DOMAIN all_records : \E h, j \in DOMAIN all_records :
    /\ i + 1 <= Len(all_records)
    /\ all_records[i].freq = "Quarter" /\ all_records[i + 1].freq = "Annual"
    /\ all_records[i].company = all_records[i + 1].company
    /\ all_records[i].metrics.totalRevenue # None
    /\ all_records[i + 1].metrics.totalRevenue # None
    /\ "totalRevenue_QoQ_growth_pct" \notin DOMAIN all_records[i].metrics
    /\ j > 1
    /\ all_records[h].freq = "Quarter" /\ all_records[j].freq = "Annual"
    /\ all_records[h].company = all_records[j].company
    /\ IsPriorYearDate(all_records[j].fiscalDate, all_records[h].fiscalDate)
    /\ "totalRevenue_YoY_growth_pct" \notin DOMAIN all_records[h].metrics
    /\ "totalRevenue_YoY_growth_pct" \in DOMAIN all_records[j - 1].metrics

====
